---- MODULE Spec2Model ----
(***************************************************************************)
(* swingby: a gravity simulation driven by the ebiten game loop.           *)
(*                                                                         *)
(* The repository holds two programs.  src/main.go simulates one planet    *)
(* and one spacecraft (only the spacecraft is attracted);                  *)
(* src/unnamed/part_000 simulates a slice of SpaceObjects that attract     *)
(* each other pairwise.  Both are modelled here; the variable prog says    *)
(* which of the two programs a behaviour runs.                             *)
(*                                                                         *)
(* Numbers.  The code computes in float64.  A number of the model is a     *)
(* record [n, d]: the rational n/d in lowest terms when d > 0, and the     *)
(* IEEE-754 special values when d = 0 (n = 0: NaN, n = 1: +Inf,            *)
(* n = -1: -Inf).  The sign of a zero is not kept (every divisor the code  *)
(* can make zero is a mass, a square or a square root, all +0).            *)
(* A behaviour is evaluated in one of two arithmetics, fixed by arith:     *)
(*   "F"  every operation rounds its exact result to the nearest binary    *)
(*        floating-point number (ties to even), with overflow to Inf and   *)
(*        gradual underflow, as float64 does, at a significand of P bits   *)
(*        and exponents -EMinNeg .. EMax instead of 53 bits / -1074..971;  *)
(*   "R"  no rounding (real arithmetic), the idealisation in which the     *)
(*        physical laws are stated.  A square root that is irrational is   *)
(*        the value Irr (d = -1); Update is only taken from states whose   *)
(*        distances have rational roots.                                   *)
(* Units.  The unit of time and of mass are chosen so that the constants   *)
(* fit the short significand: gravitation = 6.67430e-11 is 1.001b * 2^-34  *)
(* at 4 bits, i.e. 9 * 2^k, and dt (1440 s in main.go, 43200 s in          *)
(* part_000) is 1.011b * 2^k, i.e. 11 * 2^k, and XScale = 1e-7 is          *)
(* 1.101b * 2^k, i.e. 13 * 2^k.  Scaling a unit by a power of two changes   *)
(* no significand.                                                         *)
(* Not modelled: the images (img, color, name, the screen) and the text     *)
(* drawn by Draw; of pathImg only whether it is nil.                        *)
(***************************************************************************)
EXTENDS Integers, Sequences, FiniteSets, TLC

VARIABLES
    arith,         \* "R" or "F": the arithmetic of this behaviour
    prog,          \* "main" (src/main.go) or "nbody" (src/unnamed/part_000)
    objs,          \* Game.spaceObjects; in main: <<Game.planet, Game.spacecraft>>
    time,          \* Game.time
    screenWidth,   \* Game.screenWidth
    screenHeight,  \* Game.screenHeight
    pathImg,       \* per body: TRUE when its pathImg is a created image, FALSE when nil
    status,        \* "running", or "panicked" after a nil pathImg was drawn on
    err,           \* what the last Update call returned: "nil", or "none" before the first
    ticks,         \* history: number of Update calls so far
    objs0,         \* history: the bodies NewGame constructed
    pre,           \* history: the bodies at the start of the last Update call
    log            \* history: the reads and writes of the last Update call, in order

vars == <<arith, prog, objs, time, screenWidth, screenHeight, pathImg, status,
          err, ticks, objs0, pre, log>>

----------------------------------------------------------------------------
(* Bounds of the model *)

P == 4          \* bits of significand in "F"
EMax == 5       \* largest exponent in "F": the largest finite number is (2^P - 1) * 2^EMax
EMinNeg == 8    \* the smallest exponent in "F" is -EMinNeg
MaxTicks == 3   \* Update calls per behaviour
MaxBodies == 3  \* len(Game.spaceObjects) is 1 .. MaxBodies (NewGame makes 3)
MaxNum == 64    \* "R": Update is followed while numerators are at most MaxNum ...
MaxDen == 8     \* ... and denominators at most MaxDen (TLC computes in 32-bit integers)

----------------------------------------------------------------------------
(* Arithmetic *)

\* F applied to the value v: a local name of the source, v computed once
Let(v, F(_)) == F(v)

Abs(x) == IF x < 0 THEN -x ELSE x

Sgn(x) == IF x < 0 THEN -1 ELSE IF x > 0 THEN 1 ELSE 0

RECURSIVE GCD(_, _)
GCD(a, b) == IF b = 0 THEN a ELSE GCD(b, a % b)

RECURSIVE Pow2(_)
Pow2(k) == IF k <= 0 THEN 1 ELSE 2 * Pow2(k - 1)

\* the rational n/d (d > 0) in lowest terms
Mk(n, d) == Let(GCD(Abs(n), d), LAMBDA g : [n |-> n \div g, d |-> d \div g])

Num(n) == [n |-> n, d |-> 1]

NaN == [n |-> 0, d |-> 0]

PInf == [n |-> 1, d |-> 0]

NInf == [n |-> -1, d |-> 0]

Irr == [n |-> 0, d |-> -1]

Zero == Num(0)

IsFin(x) == x.d > 0

IsNaN(x) == x.d = 0 /\ x.n = 0

IsInf(x) == x.d = 0 /\ x.n # 0

\* NaN or +-Inf: what the spec calls an invalid numeric value
Invalid(x) == x.d = 0

Inf(s) == [n |-> s, d |-> 0]

\* exact (unrounded) operations, with the IEEE rules for the special values
RNeg(x) == [x EXCEPT !.n = -x.n]

RAdd(a, b) ==
    IF a.d = -1 \/ b.d = -1 THEN Irr
    ELSE IF IsNaN(a) \/ IsNaN(b) THEN NaN
    ELSE IF a.d = 0 /\ b.d = 0 THEN (IF a.n = b.n THEN a ELSE NaN)
    ELSE IF a.d = 0 THEN a
    ELSE IF b.d = 0 THEN b
    ELSE Let(GCD(a.d, b.d), LAMBDA g :
             Mk(a.n * (b.d \div g) + b.n * (a.d \div g), (a.d \div g) * b.d))

RMul(a, b) ==
    IF a.d = -1 \/ b.d = -1 THEN Irr
    ELSE IF IsNaN(a) \/ IsNaN(b) THEN NaN
    ELSE IF a.d = 0 \/ b.d = 0
         THEN (IF a.n = 0 \/ b.n = 0 THEN NaN ELSE Inf(Sgn(a.n) * Sgn(b.n)))
    ELSE Let(GCD(Abs(a.n), b.d), LAMBDA g1 :
         Let(GCD(Abs(b.n), a.d), LAMBDA g2 :
             Mk((a.n \div g1) * (b.n \div g2), (a.d \div g2) * (b.d \div g1))))

RDiv(a, b) ==
    IF a.d = -1 \/ b.d = -1 THEN Irr
    ELSE IF IsNaN(a) \/ IsNaN(b) THEN NaN
    ELSE IF a.d = 0 THEN (IF b.d = 0 THEN NaN
                          ELSE Inf(a.n * (IF b.n < 0 THEN -1 ELSE 1)))
    ELSE IF b.d = 0 THEN Zero
    ELSE IF b.n = 0 THEN (IF a.n = 0 THEN NaN ELSE Inf(Sgn(a.n)))
    ELSE RMul(a, IF b.n > 0 THEN [n |-> b.d, d |-> b.n]
                 ELSE [n |-> -b.d, d |-> -b.n])

\* a <= b as Go's float64 comparison decides it (false when either is NaN)
RLe(a, b) ==
    IF a.d < 0 \/ b.d < 0 \/ IsNaN(a) \/ IsNaN(b) THEN FALSE
    ELSE IF a.d = 0 THEN (a.n = -1 \/ (b.d = 0 /\ b.n = 1))
    ELSE IF b.d = 0 THEN b.n = 1
    ELSE a.n * b.d <= b.n * a.d

\* a < b (false when either is NaN)
RLt(a, b) == RLe(a, b) /\ a # b

\* floor of the square root of a natural number (Newton's iteration)
RECURSIVE NewtonSqrt(_, _)
NewtonSqrt(n, r) ==
    Let((r + n \div r) \div 2, LAMBDA r2 : IF r2 >= r THEN r ELSE NewtonSqrt(n, r2))

ISqrt(n) == IF n = 0 THEN 0 ELSE NewtonSqrt(n, n)

IsSquare(n) == Let(ISqrt(n), LAMBDA r : r * r = n)

\* the square root in "R": exact when rational, Irr otherwise
SqrtR(x) ==
    IF x.d = -1 THEN Irr
    ELSE IF IsNaN(x) \/ x.n < 0 THEN NaN
    ELSE IF x.d = 0 THEN PInf
    ELSE IF IsSquare(x.n) /\ IsSquare(x.d) THEN [n |-> ISqrt(x.n), d |-> ISqrt(x.d)]
    ELSE Irr

\* m * 2^e
Scaled(m, e) == IF e >= 0 THEN Mk(m * Pow2(e), 1) ELSE Mk(m, Pow2(-e))

\* <<n, d, e>> with n/d * 2^e the number given and n/d in [2^(P-1), 2^P), or e = -EMinNeg
\* and n/d below that (a subnormal), or e > EMax (an overflow)
RECURSIVE ScaleE(_, _, _)
ScaleE(n, d, e) ==
    IF n >= d * Pow2(P) /\ e <= EMax THEN ScaleE(n, 2 * d, e + 1)
    ELSE IF n < d * Pow2(P - 1) /\ e > -EMinNeg THEN ScaleE(2 * n, d, e - 1)
    ELSE <<n, d, e>>

\* the positive rational n/d rounded to the nearest number of P bits, ties to even
RoundPos(n, d) ==
    Let(ScaleE(n, d, 0), LAMBDA s :
    Let(s[1] \div s[2], LAMBDA q :
    Let(s[1] % s[2], LAMBDA r :
    Let(IF 2 * r > s[2] THEN q + 1
        ELSE IF 2 * r = s[2] THEN q + (q % 2)
        ELSE q, LAMBDA m :
        IF s[3] > EMax \/ (s[3] = EMax /\ m >= Pow2(P)) THEN PInf
        ELSE Scaled(m, s[3])))))

\* rounding of an exact result in "F"
RndF(x) ==
    IF x.d <= 0 \/ x.n = 0 THEN x
    ELSE IF x.n > 0 THEN RoundPos(x.n, x.d)
    ELSE RNeg(RoundPos(-x.n, x.d))

RECURSIVE ScaleS(_, _, _)
ScaleS(n, d, e) ==
    IF n >= d * Pow2(2 * P) THEN ScaleS(n, 4 * d, e + 1)
    ELSE IF n < d * Pow2(2 * P - 2) /\ e > -EMinNeg THEN ScaleS(4 * n, d, e - 1)
    ELSE <<n, d, e>>

\* math.Sqrt in "F": the correctly rounded square root
SqrtF(x) ==
    IF x.d = -1 THEN Irr
    ELSE IF IsNaN(x) \/ x.n < 0 THEN NaN
    ELSE IF x.d = 0 \/ x.n = 0 THEN x
    ELSE Let(ScaleS(x.n, x.d, 0), LAMBDA s :
         Let(CHOOSE m \in 0 .. (Pow2(P) - 1) :
                 /\ m * m * s[2] <= s[1]
                 /\ (m + 1) * (m + 1) * s[2] > s[1], LAMBDA q :
             Scaled(IF 4 * s[1] > (2 * q + 1) * (2 * q + 1) * s[2] THEN q + 1 ELSE q,
                    s[3])))

----------------------------------------------------------------------------
(* float64 operations of the program, in the arithmetic of the behaviour *)

Rnd(x) == IF arith = "F" THEN RndF(x) ELSE x

FAdd(a, b) == Rnd(RAdd(a, b))

FSub(a, b) == Rnd(RAdd(a, RNeg(b)))

FMul(a, b) == Rnd(RMul(a, b))

FDiv(a, b) == Rnd(RDiv(a, b))

FNeg(a) == RNeg(a)

FSqrt(x) == IF arith = "F" THEN SqrtF(x) ELSE SqrtR(x)

\* float64(k) of an int k
FromInt(k) == Rnd(Num(k))

----------------------------------------------------------------------------
(* Vector *)

Vec(x, y) == [X |-> x, Y |-> y]

IVec(x, y) == Vec(Num(x), Num(y))

Length(v) == FSqrt(FAdd(FMul(v.X, v.X), FMul(v.Y, v.Y)))

Normalize(v) ==
    Let(Length(v), LAMBDA length :
        Vec(FDiv(v.X, length), FDiv(v.Y, length)))

Scale(v, xScale, yScale) == Vec(FMul(v.X, xScale), FMul(v.Y, yScale))

Translate(v, dx, dy) == Vec(FAdd(v.X, dx), FAdd(v.Y, dy))

----------------------------------------------------------------------------
(* Constants of the two programs, in the units of the model *)

gravitation == Mk(9, 16)

dt == Mk(11, 8)

MainDt == Mk(11, 8)

XScale == Mk(13, 16)

YScale == Mk(13, 16)

----------------------------------------------------------------------------
(* src/unnamed/part_000: SpaceObject *)

UpdateVelocity(so, force) ==
    [so EXCEPT !.velocity =
        Vec(FAdd(so.velocity.X, FMul(FDiv(force.X, so.mass), dt)),
            FAdd(so.velocity.Y, FMul(FDiv(force.Y, so.mass), dt)))]

UpdatePosition(so) ==
    [so EXCEPT !.position =
        Vec(FAdd(so.position.X, FMul(so.velocity.X, dt)),
            FAdd(so.position.Y, FMul(so.velocity.Y, dt)))]

\* a variant of calculateGravitationalForce that drops the negation: the force
\* points from so2 to so1
calculateGravitationalForceRepulsive(so1, so2) ==
    Let(Vec(FSub(so1.position.X, so2.position.X),
            FSub(so1.position.Y, so2.position.Y)), LAMBDA distanceVector :
    Let(Length(distanceVector), LAMBDA distance :
    Let(FDiv(FMul(FMul(gravitation, so2.mass), so1.mass),
             FMul(distance, distance)), LAMBDA gravForce :
    Let(Normalize(distanceVector), LAMBDA forceDirection :
        Vec(FMul(gravForce, forceDirection.X),
            FMul(gravForce, forceDirection.Y))))))

\* a variant of calculateGravitationalForce that guards the division: no force at
\* distance 0
calculateGravitationalForceGuarded(so1, so2) ==
    Let(Vec(FSub(so1.position.X, so2.position.X),
            FSub(so1.position.Y, so2.position.Y)), LAMBDA distanceVector :
    Let(Length(distanceVector), LAMBDA distance :
        IF distance = Zero THEN Vec(Zero, Zero)
        ELSE Let(FDiv(FMul(FMul(gravitation, so2.mass), so1.mass),
                      FMul(distance, distance)), LAMBDA gravForce :
             Let(Normalize(distanceVector), LAMBDA forceDirection :
                 Vec(FMul(FNeg(gravForce), forceDirection.X),
                     FMul(FNeg(gravForce), forceDirection.Y))))))

calculateGravitationalForce(so1, so2) ==
    Let(Vec(FSub(so1.position.X, so2.position.X),
            FSub(so1.position.Y, so2.position.Y)), LAMBDA distanceVector :
    Let(Length(distanceVector), LAMBDA distance :
    Let(FDiv(FMul(FMul(gravitation, so2.mass), so1.mass),
             FMul(distance, distance)), LAMBDA gravForce :
    Let(Normalize(distanceVector), LAMBDA forceDirection :
        Vec(FMul(FNeg(gravForce), forceDirection.X),
            FMul(FNeg(gravForce), forceDirection.Y))))))

----------------------------------------------------------------------------
(* The reads and writes of one Update call, in program order *)

\* calculateGravitationalForce(*so1, *so2) was called for indices i, j and read
\* the positions p1 (of so1) and p2 (of so2)
\* and returned f
ForceEv(i, j, p1, p2, f) ==
    [op |-> "force", i |-> i, j |-> j, p1 |-> p1, p2 |-> p2, f |-> f]

\* the velocity of body i was written: p1 before, p2 after
VelEv(i, j, v1, v2) ==
    [op |-> "vel", i |-> i, j |-> j, p1 |-> v1, p2 |-> v2, f |-> Vec(Zero, Zero)]

\* the position of body i was written: p1 before, p2 after
PosEv(i, p1, p2) ==
    [op |-> "pos", i |-> i, j |-> 0, p1 |-> p1, p2 |-> p2, f |-> Vec(Zero, Zero)]

----------------------------------------------------------------------------
(* src/unnamed/part_000: Game.Update *)

\* a variant of InnerBody that skips a pair by distance instead of by index
InnerBodySkipByDistance(st, i, j) ==
    IF st.objs[j].position = st.objs[i].position THEN st
    ELSE Let(st.objs[i], LAMBDA so1 :
         Let(st.objs[j], LAMBDA so2 :
         Let(calculateGravitationalForce(so1, so2), LAMBDA force :
         Let(UpdateVelocity(so1, force), LAMBDA so1n :
             [objs |-> [st.objs EXCEPT ![i] = so1n],
              log  |-> st.log \o <<ForceEv(i, j, so1.position, so2.position, force),
                                   VelEv(i, j, so1.velocity, so1n.velocity)>>]))))

\* the body of the inner loop (lines 246-257) for indices i, j
InnerBody(st, i, j) ==
    IF j = i THEN st
    ELSE Let(st.objs[i], LAMBDA so1 :
         Let(st.objs[j], LAMBDA so2 :
         Let(calculateGravitationalForce(so1, so2), LAMBDA force :
         Let(UpdateVelocity(so1, force), LAMBDA so1n :
             [objs |-> [st.objs EXCEPT ![i] = so1n],
              log  |-> st.log \o <<ForceEv(i, j, so1.position, so2.position, force),
                                   VelEv(i, j, so1.velocity, so1n.velocity)>>]))))

\* the body of the second loop (lines 261-266) for index i
PositionBody(st, i, w, h) ==
    Let(st.objs[i], LAMBDA so :
    Let(UpdatePosition(so), LAMBDA so2 :
    Let([so2 EXCEPT !.scaledPosition =
            Translate(Scale(so2.position, XScale, YScale),
                      FromInt(w \div 2), FromInt(h \div 2))], LAMBDA so3 :
        [objs |-> [st.objs EXCEPT ![i] = so3],
         log  |-> Append(st.log, PosEv(i, so.position, so3.position))])))

RECURSIVE InnerLoop(_, _, _)
InnerLoop(st, i, j) ==
    IF j > Len(st.objs) THEN st ELSE InnerLoop(InnerBody(st, i, j), i, j + 1)

\* a variant of VelocityLoop that moves each body as soon as its velocity is done
RECURSIVE VelocityLoopInterleaved(_, _)
VelocityLoopInterleaved(st, i) ==
    IF i > Len(st.objs) THEN st
    ELSE VelocityLoopInterleaved(PositionBody(InnerLoop(st, i, 1), i, 0, 0), i + 1)

\* the first loop (lines 245-258), from index i on
RECURSIVE VelocityLoop(_, _)
VelocityLoop(st, i) ==
    IF i > Len(st.objs) THEN st ELSE VelocityLoop(InnerLoop(st, i, 1), i + 1)

RECURSIVE PositionLoop(_, _, _, _)
PositionLoop(st, i, w, h) ==
    IF i > Len(st.objs) THEN st
    ELSE PositionLoop(PositionBody(st, i, w, h), i + 1, w, h)

\* a variant of UpdateResult that moves the bodies before it updates the velocities
UpdateResultPositionFirst(os, w, h) ==
    VelocityLoop(PositionLoop([objs |-> os, log |-> <<>>], 1, w, h), 1)

\* the bodies and the log after the two loops of Update
UpdateResult(os, w, h) ==
    PositionLoop(VelocityLoop([objs |-> os, log |-> <<>>], 1), 1, w, h)

----------------------------------------------------------------------------
(* src/main.go: Game.Update; objs[1] is g.planet, objs[2] is g.spacecraft *)

MainUpdateResult(os) ==
    Let(Vec(FAdd(os[1].position.X, FMul(os[1].velocity.X, MainDt)),
            FAdd(os[1].position.Y, FMul(os[1].velocity.Y, MainDt))), LAMBDA planetPos :
    Let(os[2].position, LAMBDA pos :
    Let(os[2].velocity, LAMBDA vel :
    Let(Vec(FSub(pos.X, planetPos.X), FSub(pos.Y, planetPos.Y)), LAMBDA distanceVector :
    Let(Length(distanceVector), LAMBDA distance :
    Let(FDiv(FMul(FMul(gravitation, os[1].mass), os[2].mass),
             FMul(distance, distance)), LAMBDA gravForce :
    Let(Normalize(distanceVector), LAMBDA forceDirection :
    Let(Vec(FMul(FNeg(gravForce), forceDirection.X),
            FMul(FNeg(gravForce), forceDirection.Y)), LAMBDA force :
    Let(Vec(FAdd(vel.X, FMul(FDiv(force.X, os[2].mass), MainDt)),
            FAdd(vel.Y, FMul(FDiv(force.Y, os[2].mass), MainDt))), LAMBDA vel2 :
    Let(Vec(FAdd(pos.X, FMul(vel2.X, MainDt)),
            FAdd(pos.Y, FMul(vel2.Y, MainDt))), LAMBDA pos2 :
        [objs |-> <<[os[1] EXCEPT !.position = planetPos],
                    [os[2] EXCEPT !.velocity = vel2, !.position = pos2]>>,
         log  |-> <<PosEv(1, os[1].position, planetPos),
                    ForceEv(2, 1, pos, planetPos, force),
                    VelEv(2, 1, vel, vel2),
                    PosEv(2, pos, pos2)>>]))))))))))

----------------------------------------------------------------------------
(* Draw: pathImg is created while g.time <= dt, and drawn on in every call *)

\* SpaceObject.UpdatePathImage / Game.FillPathPixel call DrawImage on pathImg:
\* TRUE when pathImg is an image, FALSE when it is nil (the call dereferences it)
UpdatePathImage(img) == img

FillPathPixel(img) == img

\* the body of Draw's loop (part_000 lines 275-292) for index i
DrawBody(st, i) ==
    Let(IF RLe(time, dt) THEN [st.img EXCEPT ![i] = TRUE] ELSE st.img, LAMBDA img :
        [img |-> img, ok |-> UpdatePathImage(img[i])])

\* the loop stops at the first body whose pathImg is nil
RECURSIVE DrawLoop(_, _)
DrawLoop(st, i) ==
    IF i > Len(st.img) \/ ~st.ok THEN st ELSE DrawLoop(DrawBody(st, i), i + 1)

\* src/main.go Draw (lines 153-188)
MainDrawResult(imgs) ==
    Let(IF RLe(time, MainDt) THEN [i \in 1 .. 2 |-> TRUE] ELSE imgs, LAMBDA img :
        [img |-> img, ok |-> FillPathPixel(img[2])])

----------------------------------------------------------------------------
(* The states NewGame can construct.  NewGame builds fixed bodies; the      *)
(* masses, positions and velocities are the host's choice, so the model     *)
(* draws them from small sets that hold bodies at rest and moving, pairs at *)
(* distances 3, 4 and 5, coincident pairs and zero masses.                  *)

ZeroVec == Vec(Zero, Zero)

SpaceObject(m, p, v) ==
    [mass |-> Num(m), position |-> IVec(p[1], p[2]), velocity |-> IVec(v[1], v[2]),
     scaledPosition |-> ZeroVec]

MassSet(i) == IF i <= 3 THEN {0, 3, 5} ELSE {3}

PosSet(i) == CASE i = 1 -> {<<0, 0>>}
               [] i = 2 -> {<<3, 0>>, <<0, 0>>}
               [] i = 3 -> {<<0, 4>>, <<3, 0>>}
               [] OTHER -> {<<3, 4>>}

VelSet(i) == CASE i = 1 -> {<<0, 0>>, <<0, -1>>}
               [] i = 2 -> {<<0, 0>>, <<1, 0>>}
               [] OTHER -> {<<0, 0>>}

ObjSet(i) == {SpaceObject(m, p, v) : m \in MassSet(i), p \in PosSet(i), v \in VelSet(i)}

\* the slices of n space objects
RECURSIVE Worlds(_)
Worlds(n) == IF n = 0 THEN {<<>>}
             ELSE {Append(w, o) : w \in Worlds(n - 1), o \in ObjSet(n)}

\* part_000: 1 .. MaxBodies space objects
NBodyWorlds == UNION {Worlds(n) : n \in 1 .. MaxBodies}

Body(m, p, v) ==
    [mass |-> Num(m), position |-> IVec(p[1], p[2]), velocity |-> IVec(v[1], v[2])]

PlanetSet == {Body(m, <<0, 0>>, v) : m \in {0, 3, 5}, v \in {<<0, 0>>, <<0, -1>>}}

SpacecraftSet == {Body(m, p, v) : m \in {0, 1, 3}, p \in {<<3, 4>>, <<0, 4>>, <<0, 0>>},
                                 v \in {<<0, 0>>, <<0, -1>>}}

\* main.go: a planet and a spacecraft
MainWorlds == {<<pl, sc>> : pl \in PlanetSet, sc \in SpacecraftSet}

NewGame(a, pr, os) ==
    /\ arith = a
    /\ prog = pr
    /\ objs = os
    /\ time = Zero
    /\ screenWidth = 0
    /\ screenHeight = 0
    /\ pathImg = [i \in 1 .. Len(os) |-> FALSE]
    /\ status = "running"
    /\ err = "none"
    /\ ticks = 0
    /\ objs0 = os
    /\ pre = os
    /\ log = <<>>

InitIn(a) ==
    \/ \E os \in NBodyWorlds : NewGame(a, "nbody", os)
    \/ \E os \in MainWorlds : NewGame(a, "main", os)

Init == \E a \in {"R", "F"} : InitIn(a)

InitR == InitIn("R")

InitF == InitIn("F")

----------------------------------------------------------------------------
(* Which states the model follows in "R" *)

Components(os) ==
    UNION {{os[i].position.X, os[i].position.Y, os[i].velocity.X, os[i].velocity.Y}
              : i \in 1 .. Len(os)}

\* no number of the bodies is an irrational the model cannot hold
Rational(os) == \A x \in Components(os) : x.d >= 0

\* the finite numbers of the bodies are small enough to compute one more tick with
InRange(os) == \A x \in Components(os) : x.d > 0 => (Abs(x.n) <= MaxNum /\ x.d <= MaxDen)

----------------------------------------------------------------------------
(* Actions: the calls the ebiten game loop makes *)

\* a variant of NextTime that assigns instead of adding
NextTimeAssign(t, d) == d

\* g.time += dt
NextTime(t, d) == FAdd(t, d)

Update ==
    /\ prog = "nbody"
    /\ status = "running"
    /\ ticks < MaxTicks
    /\ arith = "R" => InRange(objs)
    /\ \E st \in {UpdateResult(objs, screenWidth, screenHeight)} :
           /\ arith = "R" => Rational(st.objs)
           /\ objs' = st.objs
           /\ log' = st.log
    /\ time' = NextTime(time, dt)
    /\ err' = "nil"
    /\ ticks' = ticks + 1
    /\ pre' = objs
    /\ UNCHANGED <<arith, prog, screenWidth, screenHeight, pathImg, status, objs0>>

MainUpdate ==
    /\ prog = "main"
    /\ status = "running"
    /\ ticks < MaxTicks
    /\ arith = "R" => InRange(objs)
    /\ \E st \in {MainUpdateResult(objs)} :
           /\ arith = "R" => Rational(st.objs)
           /\ objs' = st.objs
           /\ log' = st.log
    /\ time' = NextTime(time, MainDt)
    /\ err' = "nil"
    /\ ticks' = ticks + 1
    /\ pre' = objs
    /\ UNCHANGED <<arith, prog, screenWidth, screenHeight, pathImg, status, objs0>>

Draw ==
    /\ prog = "nbody"
    /\ status = "running"
    /\ \E st \in {DrawLoop([img |-> pathImg, ok |-> TRUE], 1)} :
           /\ pathImg' = st.img
           /\ status' = IF st.ok THEN "running" ELSE "panicked"
    /\ UNCHANGED <<arith, prog, objs, time, screenWidth, screenHeight, err, ticks,
                   objs0, pre, log>>

MainDraw ==
    /\ prog = "main"
    /\ status = "running"
    /\ \E st \in {MainDrawResult(pathImg)} :
           /\ pathImg' = st.img
           /\ status' = IF st.ok THEN "running" ELSE "panicked"
    /\ UNCHANGED <<arith, prog, objs, time, screenWidth, screenHeight, err, ticks,
                   objs0, pre, log>>

LayoutSizes == {<<5, 2>>}

Layout(outsideWidth, outsideHeight) ==
    /\ status = "running"
    /\ screenWidth' = outsideWidth
    /\ screenHeight' = outsideHeight
    /\ UNCHANGED <<arith, prog, objs, time, pathImg, status, err, ticks, objs0, pre, log>>

Next ==
    \/ Update
    \/ MainUpdate
    \/ Draw
    \/ MainDraw
    \/ \E s \in LayoutSizes : Layout(s[1], s[2])

Spec == Init /\ [][Next]_vars

SpecR == InitR /\ [][Next]_vars

SpecF == InitF /\ [][Next]_vars

----------------------------------------------------------------------------
(* Vocabulary of the properties *)

N == Len(objs)

VAdd(u, v) == Vec(FAdd(u.X, v.X), FAdd(u.Y, v.Y))

VSub(u, v) == Vec(FSub(u.X, v.X), FSub(u.Y, v.Y))

VNeg(v) == Vec(FNeg(v.X), FNeg(v.Y))

VTimes(v, k) == Vec(FMul(v.X, k), FMul(v.Y, k))

VOver(v, k) == Vec(FDiv(v.X, k), FDiv(v.Y, k))

Dot(u, v) == FAdd(FMul(u.X, v.X), FMul(u.Y, v.Y))

Cross(u, v) == FSub(FMul(u.X, v.Y), FMul(u.Y, v.X))

ValidVec(v) == IsFin(v.X) /\ IsFin(v.Y)

InvalidVec(v) == Invalid(v.X) /\ Invalid(v.Y)

PositiveMasses(os) == \A i \in 1 .. Len(os) : os[i].mass.d > 0 /\ os[i].mass.n > 0

DistinctPositions(os) ==
    \A i, j \in 1 .. Len(os) : i # j => os[i].position # os[j].position

\* the indices of the log that hold a call of the force computation
ForceCalls == {k \in 1 .. Len(log) : log[k].op = "force"}

PosWrites == {k \in 1 .. Len(log) : log[k].op = "pos"}

\* the sum over the other bodies j >= k of the force on body i due to j
RECURSIVE SumForces(_, _, _)
SumForces(os, i, k) ==
    IF k > Len(os) THEN ZeroVec
    ELSE IF k = i THEN SumForces(os, i, k + 1)
    ELSE VAdd(calculateGravitationalForce(os[i], os[k]), SumForces(os, i, k + 1))

NetForce(os, i) == SumForces(os, i, 1)

\* the sum over the bodies k .. Len(os) of mass * velocity
RECURSIVE MomentumFrom(_, _)
MomentumFrom(os, k) ==
    IF k > Len(os) THEN ZeroVec
    ELSE VAdd(VTimes(os[k].velocity, os[k].mass), MomentumFrom(os, k + 1))

Momentum(os) == MomentumFrom(os, 1)

DtOf(pr) == IF pr = "main" THEN MainDt ELSE dt

\* k times: time += dt, from 0
RECURSIVE TimeAfter(_, _)
TimeAfter(k, d) == IF k = 0 THEN Zero ELSE FAdd(TimeAfter(k - 1, d), d)

----------------------------------------------------------------------------
(* C1: in the N-body program, within one Update call no position is written *)
(* before every force evaluation and every velocity update of the tick is    *)
(* done (after the first position write the call only writes positions), and *)
(* every force evaluation reads, for both arguments, the positions the       *)
(* bodies had when the call began.                                           *)
C1_TwoPhase ==
    prog = "nbody" =>
        /\ \A k \in PosWrites : \A l \in k .. Len(log) : log[l].op = "pos"
        /\ \A k \in ForceCalls : /\ log[k].p1 = pre[log[k].i].position
                                 /\ log[k].p2 = pre[log[k].j].position

C1_Witness ==
    /\ prog = "nbody"
    /\ N = 3
    /\ ticks >= 1
    /\ Cardinality(ForceCalls) = 6
    /\ Cardinality(PosWrites) = 3
    /\ objs[1].position # pre[1].position
    /\ ValidVec(objs[1].position)

(* C2: in the planet/spacecraft program the force on the spacecraft is      *)
(* computed from the positions the planet and the spacecraft had when the   *)
(* Update call began.                                                       *)
C2_ForceReadsPreTick ==
    prog = "main" =>
        \A k \in ForceCalls : /\ log[k].p1 = pre[2].position
                              /\ log[k].p2 = pre[1].position

(* C3: in real arithmetic, after one Update call of the N-body program on   *)
(* bodies with positive masses and pairwise distinct positions, every body  *)
(* i has velocity' = velocity + (netForce_i / mass_i) * dt and              *)
(* position' = position + velocity' * dt, where netForce_i is the sum of    *)
(* the forces on i due to the other bodies at the pre-tick positions.       *)
C3_SemiImplicitEuler ==
    (arith = "R" /\ prog = "nbody" /\ ticks > 0
        /\ PositiveMasses(pre) /\ DistinctPositions(pre)) =>
        \A i \in 1 .. N :
            /\ objs[i].velocity =
                   VAdd(pre[i].velocity,
                        VTimes(VOver(NetForce(pre, i), pre[i].mass), dt))
            /\ objs[i].position =
                   VAdd(pre[i].position, VTimes(objs[i].velocity, dt))

C3_Witness ==
    /\ arith = "R" /\ prog = "nbody" /\ ticks = 1 /\ N = 3
    /\ PositiveMasses(pre) /\ DistinctPositions(pre)
    /\ \A i \in 1 .. N : /\ objs[i].velocity # pre[i].velocity
                          /\ ValidVec(objs[i].velocity)
                          /\ objs[i].position # VAdd(pre[i].position,
                                                     VTimes(pre[i].velocity, dt))

(* C4: in real arithmetic, in a world of two bodies with positive masses    *)
(* whose positions stay distinct, the total momentum (sum of mass *         *)
(* velocity) after any number of Update calls is that of the initial state, *)
(* in both programs.                                                        *)
C4_MomentumConserved ==
    (arith = "R" /\ N = 2 /\ PositiveMasses(objs0)
        /\ DistinctPositions(objs0) /\ DistinctPositions(pre) /\ DistinctPositions(objs)
        /\ \A k \in ForceCalls : log[k].p1 # log[k].p2
        /\ \A i \in 1 .. N : ValidVec(objs[i].velocity)) =>
        Momentum(objs) = Momentum(objs0)

\* the same in the N-body program alone
MomentumConservedNBody == prog = "nbody" => C4_MomentumConserved

(* C5: Game.time is 0 after NewGame and after k Update calls it is the      *)
(* result of adding dt k times, which in real arithmetic is k * dt; Draw    *)
(* and Layout leave it alone.                                               *)
C5_TimeIsTicksTimesDt ==
    /\ time = TimeAfter(ticks, DtOf(prog))
    /\ arith = "R" => time = RMul(Num(ticks), DtOf(prog))

C5_Witness ==
    /\ ticks >= 2
    /\ arith = "R"
    /\ screenWidth # 0
    /\ \E i \in 1 .. N : pathImg[i]
    /\ time = RMul(Num(ticks), DtOf(prog))

(* C6: for two bodies with positive masses and distinct positions the force *)
(* on A due to B is exactly the negation of the force on B due to A,        *)
(* component by component.                                                  *)
C6_ForcesOpposite ==
    prog = "nbody" =>
        \A k, l \in ForceCalls :
            (/\ log[k].i = log[l].j /\ log[k].j = log[l].i
             /\ pre[log[k].i].mass.n > 0 /\ pre[log[k].j].mass.n > 0
             /\ ValidVec(log[k].p1) /\ ValidVec(log[k].p2)
             /\ log[k].p1 # log[k].p2
             /\ ValidVec(log[k].f) /\ ValidVec(log[l].f))
            => log[k].f = VNeg(log[l].f)

\* the same in real arithmetic
ForcesOppositeInReals == arith = "R" => C6_ForcesOpposite

(* C7: one Update call of the N-body program over n bodies evaluates the    *)
(* force exactly once for every ordered pair of distinct indices and never  *)
(* for a pair (i, i), whatever the positions; with a single body it         *)
(* evaluates no force and leaves the velocity as it was.                    *)
C7_EveryOrderedPairOnce ==
    (prog = "nbody" /\ ticks > 0) =>
        /\ \A i, j \in 1 .. N :
               Cardinality({k \in ForceCalls : log[k].i = i /\ log[k].j = j})
                   = IF i = j THEN 0 ELSE 1
        /\ N = 1 => (ForceCalls = {} /\ objs[1].velocity = pre[1].velocity)

C7_Witness ==
    /\ prog = "nbody" /\ ticks > 0 /\ N = 3
    /\ pre[1].position = pre[2].position
    /\ \E k \in ForceCalls : log[k].i = 1 /\ log[k].j = 2 /\ log[k].p1 = log[k].p2

(* C8: in real arithmetic, for bodies a and b with positive masses and      *)
(* distinct positions the force on a due to b (computed by                  *)
(* calculateGravitationalForce, or inline in main.go) is a strictly         *)
(* positive multiple of b.position - a.position and has magnitude           *)
(* gravitation * a.mass * b.mass / r^2, r the distance of the positions.    *)
C8_Attractive ==
    arith = "R" =>
        \A k \in ForceCalls :
            (/\ pre[log[k].i].mass.n > 0 /\ pre[log[k].j].mass.n > 0
             /\ ValidVec(log[k].p1) /\ ValidVec(log[k].p2)
             /\ log[k].p1 # log[k].p2) =>
            /\ Cross(log[k].f, VSub(log[k].p2, log[k].p1)) = Zero
            /\ RLt(Zero, Dot(log[k].f, VSub(log[k].p2, log[k].p1)))
            /\ FMul(Dot(log[k].f, log[k].f),
                    FMul(Dot(VSub(log[k].p2, log[k].p1), VSub(log[k].p2, log[k].p1)),
                         Dot(VSub(log[k].p2, log[k].p1), VSub(log[k].p2, log[k].p1))))
                 = FMul(FMul(FMul(gravitation, pre[log[k].i].mass), pre[log[k].j].mass),
                        FMul(FMul(gravitation, pre[log[k].i].mass), pre[log[k].j].mass))

C8_Witness ==
    /\ arith = "R"
    /\ prog = "nbody"
    /\ \E k \in ForceCalls :
           /\ pre[log[k].i].mass.n > 0 /\ pre[log[k].j].mass.n > 0
           /\ VSub(log[k].p2, log[k].p1) = IVec(3, -4)
           /\ ValidVec(log[k].f) /\ log[k].f # ZeroVec

\* the inline computation of main.go is reached as well
C8_WitnessMain ==
    /\ arith = "R"
    /\ prog = "main"
    /\ \E k \in ForceCalls :
           /\ pre[1].mass.n > 0 /\ pre[2].mass.n > 0
           /\ VSub(log[k].p2, log[k].p1) = IVec(-3, -4)
           /\ ValidVec(log[k].f) /\ log[k].f # ZeroVec

\* body i took part in a division by zero in the last Update call: a force on it
\* was evaluated at distance 0, or at all while its mass is 0
Affected(i) ==
    \E k \in ForceCalls :
        /\ log[k].i = i
        /\ \/ ValidVec(log[k].p1) /\ log[k].p1 = log[k].p2
           \/ pre[i].mass = Zero

C9_Completes ==
    ticks > 0 =>
        /\ err = "nil"
        /\ \A i \in 1 .. N :
               Affected(i) => InvalidVec(objs[i].velocity) /\ InvalidVec(objs[i].position)

C9_StaysInvalid ==
    \A i \in 1 .. N :
        /\ Invalid(objs[i].velocity.X) => Invalid(objs'[i].velocity.X)
        /\ Invalid(objs[i].velocity.Y) => Invalid(objs'[i].velocity.Y)
        /\ Invalid(objs[i].position.X) => Invalid(objs'[i].position.X)
        /\ Invalid(objs[i].position.Y) => Invalid(objs'[i].position.Y)

(* C9: Update returns a nil error from every state, also from states with   *)
(* coincident positions or a zero mass; there the bodies that took part in  *)
(* the division by zero get a velocity and a position that are NaN or Inf,  *)
(* and a velocity or position that is NaN or Inf stays so in every later    *)
(* Update call.                                                             *)
C9_NoFaultInvalidPersists == []C9_Completes /\ [][C9_StaysInvalid]_vars

\* two bodies of positive mass began at one position, and their invalid velocity
\* and position have gone through a later Update call
C9_Witness ==
    /\ ticks >= 2
    /\ err = "nil"
    /\ PositiveMasses(objs0)
    /\ \E i, j \in 1 .. N :
           /\ i # j
           /\ objs0[i].position = objs0[j].position
           /\ InvalidVec(pre[i].velocity) /\ InvalidVec(pre[i].position)
           /\ InvalidVec(objs[i].velocity) /\ InvalidVec(objs[i].position)

(* C10: in every interleaving of Update and Draw calls from NewGame, when   *)
(* Draw draws a path pixel for a body, the body's pathImg has been created: *)
(* Draw never uses a nil pathImg.                                           *)
C10_PathImgNeverNil == status # "panicked"

====
